---- MODULE Spec2Model ----
(***************************************************************************)
(* Model of tweetstream/streamclasses.py: BaseStream, its generator        *)
(* __iter__ (created once in __init__ and driven by next()), _init_conn    *)
(* and close().                                                            *)
(*                                                                         *)
(* A next() call blocks on network I/O, so it is modelled as a sequence of *)
(* steps: the caller resumes the generator, the generator connects and     *)
(* reads lines from the response body until it yields or raises.  The      *)
(* server side of the connection (the lines it sends, a clean end of the   *)
(* body, a transport fault) is the environment.                            *)
(***************************************************************************)
EXTENDS Integers, Sequences, FiniteSets, TLC

(* ---- bounds ---- *)
MaxBody == 3      \* lines the server sends on one response
MaxCalls == 3     \* next() calls made by the caller
MaxConnects == 2  \* requests issued by one object
MaxTime == 1      \* steps of the clock time.time()
MaxList == 2      \* elements of a follow, locations or track list

(* ---- lines and decoded values ---- *)
EmptyLine == ""
TextTweet == "{\"text\":\"hi\"}"
DeleteNotice == "{\"delete\":1}"
NumberLine == "7"
StringLine == "\"text\""
BadLine == "{text"
NoLine == "<none>"

Lines == {EmptyLine, TextTweet, DeleteNotice, NumberLine, StringLine, BadLine}

NoValue == [t |-> "none", keys |-> {}, s |-> ""]
ValueError == [t |-> "ValueError", keys |-> {}, s |-> ""]

\* anyjson.deserialize(line): the decoded structure, or ValueError.
deserialize(line) ==
    CASE line = TextTweet -> [t |-> "dict", keys |-> {"text"}, s |-> ""]
      [] line = DeleteNotice -> [t |-> "dict", keys |-> {"delete"}, s |-> ""]
      [] line = NumberLine -> [t |-> "int", keys |-> {}, s |-> ""]
      [] line = StringLine -> [t |-> "unicode", keys |-> {}, s |-> "text"]
      [] OTHER -> ValueError

\* The strings of the model that have 'text' as a substring.
HasSubstringText(s) == s \in {TextTweet, StringLine, BadLine, "text"}

\* `'text' in tweet` (line 159): key membership for a dict, substring test
\* for a string, TypeError for a value that is not a container.
text_in_always(tweet) == "True"

text_in_never(tweet) == "False"

text_in(tweet) ==
    CASE tweet.t = "dict" -> IF "text" \in tweet.keys THEN "True" ELSE "False"
      [] tweet.t \in {"unicode", "str"} ->
            IF HasSubstringText(tweet.s) THEN "True" ELSE "False"
      [] OTHER -> "TypeError"

(* ---- error kinds ---- *)
Taxonomy == {"AuthenticationError", "ReconnectImmediatelyError",
             "ReconnectLinearlyError", "ReconnectExponentiallyError"}

Statuses == {200, 401, 404, 500}
RequestExceptions == {"HTTPError", "ConnectionError", "socket.error"}

\* Lines 116-119: what _init_conn raises for a response status.
status_raises_no_401(status) ==
    CASE status = 404 -> "ReconnectExponentiallyError"
      [] OTHER -> "none"

status_raises_no_404(status) ==
    CASE status = 401 -> "AuthenticationError"
      [] OTHER -> "none"

status_raises(status) ==
    CASE status = 401 -> "AuthenticationError"
      [] status = 404 -> "ReconnectExponentiallyError"
      [] OTHER -> "none"

\* Lines 120-121: the except clause of _init_conn converts HTTPError only.
init_conn_except(exc) ==
    IF exc = "HTTPError" THEN "ReconnectExponentiallyError" ELSE exc

\* Lines 165-166: the except clause of __iter__ converts socket.error only.
iter_except(exc) ==
    IF exc = "socket.error" THEN "ReconnectImmediatelyError" ELSE exc

NoResponse == [status |-> 0, consumed |-> FALSE]

\* self.rate_period = 10 (line 86), in seconds.
rate_period == 10

\* Steps of time.time() between two operations: inside one rate period, or
\* past it.
TickSteps == {1, rate_period + 1}

\* A rate is the quotient of a count and a number of seconds (line 138); it
\* is kept as the pair <<count, seconds>>.  self.rate = 0 (line 91).
ZeroRate == <<0, 1>>

\* An optional list argument: None, or a list.
None == [none |-> TRUE, items |-> <<>>]
List(items) == [none |-> FALSE, items |-> items]

VARIABLES
    \* fields of the object
    connected, response, starttime, count, rate, rate_ts, rate_cnt, raw_mode,
    \* the generator self._iter and the position of the running next() call
    gen, pc,
    \* the environment: clock and the raw stream of the current response
    now, body, pos, stream,
    \* observation of the calls
    result, ncalls, nconnects, lineRead, lineIdx, connectsInCall,
    startedConnected, readDisconnected, countAtCall, forced, prevForced,
    connOutcome, connRaised, sockErrInCall, delivered,
    \* number of clock steps taken
    nticks,
    \* time at which the first counted tweet was returned (0: none yet)
    firstCountTime,
    \* the operation that made the last step
    lastOp,
    \* the with-statement around the object: scope, and how it was left
    scope, exitResult,
    \* FilterStream: constructor arguments and the last request payload
    follow, locations, track, postdata,
    \* outcome of the last _update_rate() call
    updateResult

objVars == <<connected, response, starttime, count, rate, rate_ts, rate_cnt,
             raw_mode>>
envVars == <<now, nticks, body, pos, stream>>
callVars == <<ncalls, lineRead, lineIdx, connectsInCall, startedConnected,
              readDisconnected, countAtCall, forced, prevForced,
              sockErrInCall>>
connVars == <<nconnects, connOutcome, connRaised, firstCountTime>>
scopeVars == <<scope, exitResult>>
filterVars == <<follow, locations, track, postdata>>
auxVars == <<scopeVars, filterVars, updateResult>>
vars == <<objVars, gen, pc, envVars, result, callVars, connVars, delivered,
          lastOp, auxVars>>

NoResult == [kind |-> "none", err |-> "none", value |-> NoValue]
Raised(err) == [kind |-> "raise", err |-> err, value |-> NoValue]
Returned(v) == [kind |-> "return", err |-> "none", value |-> v]

\* BaseStream.__init__ (lines 73-93); raw is a constructor argument.
InitBase ==
    /\ connected = FALSE
    /\ response = NoResponse
    /\ starttime = 0
    /\ count = 0
    /\ rate = ZeroRate
    /\ rate_ts = 0
    /\ rate_cnt = 0
    /\ raw_mode \in BOOLEAN
    /\ gen = "created"
    /\ pc = "idle"
    /\ now = 1
    /\ body = <<>>
    /\ pos = 0
    /\ stream = "none"
    /\ result = NoResult
    /\ ncalls = 0
    /\ nconnects = 0
    /\ lineRead = NoLine
    /\ lineIdx = 0
    /\ connectsInCall = 0
    /\ startedConnected = FALSE
    /\ readDisconnected = FALSE
    /\ countAtCall = 0
    /\ forced = FALSE
    /\ prevForced = FALSE
    /\ connOutcome = "none"
    /\ connRaised = "none"
    /\ sockErrInCall = FALSE
    /\ delivered = <<>>
    /\ nticks = 0
    /\ firstCountTime = 0
    /\ lastOp = "none"
    /\ scope = "out"
    /\ exitResult = "none"
    /\ postdata = {}
    /\ updateResult = NoResult

\* A stream constructed without filter arguments.
Init ==
    /\ InitBase
    /\ follow = None
    /\ locations = None
    /\ track = None

\* A step of next(), of the server or of the clock: it is not one of the
\* operations observed through lastOp, and it leaves the with-statement, the
\* filter arguments and the outcome of _update_rate alone.
ObjectStep ==
    /\ lastOp' = "step"
    /\ UNCHANGED auxVars

\* An exception leaves the generator: the generator is finished and the
\* exception reaches the caller of next().
GenRaise(err) ==
    /\ gen' = "finished"
    /\ pc' = "idle"
    /\ result' = Raised(err)

\* yield tweet (line 162): the generator is suspended inside the for loop.
GenYield(v) ==
    /\ gen' = "suspended"
    /\ pc' = "idle"
    /\ result' = Returned(v)

\* Bookkeeping at the start of a next() call.
BeginCall ==
    /\ ncalls' = ncalls + 1
    /\ lineRead' = NoLine
    /\ lineIdx' = 0
    /\ connectsInCall' = 0
    /\ startedConnected' = connected
    /\ readDisconnected' = FALSE
    /\ countAtCall' = count
    /\ prevForced' = forced
    /\ forced' = FALSE
    /\ sockErrInCall' = FALSE

\* next() (lines 168-170) on a generator that has not finished: a new
\* generator starts at the top of `while True`, a suspended one resumes
\* after the yield, inside the for loop.
next_resume ==
    /\ pc = "idle"
    /\ ncalls < MaxCalls
    /\ gen \in {"created", "suspended"}
    /\ BeginCall
    /\ gen' = "running"
    /\ pc' = IF gen = "created" THEN "top" ELSE "read"
    /\ result' = NoResult
    /\ UNCHANGED <<objVars, envVars, connVars, delivered>>
    /\ ObjectStep

\* next() that starts a new generator when the old one has finished.
next_restart ==
    /\ pc = "idle"
    /\ ncalls < MaxCalls
    /\ gen = "finished"
    /\ BeginCall
    /\ gen' = "running"
    /\ pc' = "top"
    /\ result' = NoResult
    /\ UNCHANGED <<objVars, envVars, connVars, delivered>>
    /\ ObjectStep

\* next() on a generator that an earlier exception has finished.
next_finished ==
    /\ pc = "idle"
    /\ ncalls < MaxCalls
    /\ gen = "finished"
    /\ BeginCall
    /\ result' = Raised("StopIteration")
    /\ UNCHANGED <<objVars, gen, pc, envVars, connVars, delivered>>
    /\ ObjectStep

\* A timestamp field written on every successful connect.
first_time_always(field) == now

\* Lines 124-127: `if not self.starttime: self.starttime = time.time()`.
first_time(field) == IF field = 0 THEN now ELSE field

\* _init_conn (lines 102-127) when requests.post returns a response.
init_conn_response(status) ==
    /\ pc = "top"
    /\ ~connected
    /\ nconnects < MaxConnects
    /\ nconnects' = nconnects + 1
    /\ connectsInCall' = connectsInCall + 1
    /\ connOutcome' = ToString(status)
    /\ connRaised' = status_raises(status)
    /\ response' = [status |-> status, consumed |-> FALSE]
    /\ body' = <<>>
    /\ pos' = 0
    /\ delivered' = <<>>
    /\ IF status_raises(status) # "none"
       THEN /\ GenRaise(iter_except(status_raises(status)))
            /\ stream' = "eof"
            /\ UNCHANGED <<connected, starttime, rate_ts>>
       ELSE /\ connected' = TRUE
            /\ starttime' = first_time(starttime)
            /\ rate_ts' = first_time(rate_ts)
            /\ stream' = "open"
            /\ pc' = "read"
            /\ UNCHANGED <<gen, result>>
    /\ UNCHANGED <<count, rate, rate_cnt, raw_mode, now, nticks, ncalls,
                   lineRead, lineIdx, startedConnected, readDisconnected,
                   countAtCall, forced, prevForced, sockErrInCall,
                   firstCountTime>>
    /\ ObjectStep

\* _init_conn when requests.post raises.
init_conn_exception(exc) ==
    /\ pc = "top"
    /\ ~connected
    /\ nconnects < MaxConnects
    /\ nconnects' = nconnects + 1
    /\ connectsInCall' = connectsInCall + 1
    /\ connOutcome' = exc
    /\ connRaised' = init_conn_except(exc)
    /\ sockErrInCall' = (exc = "socket.error")
    /\ GenRaise(iter_except(init_conn_except(exc)))
    /\ UNCHANGED <<objVars, envVars, delivered, ncalls, lineRead, lineIdx,
                   startedConnected, readDisconnected, countAtCall, forced,
                   prevForced, firstCountTime>>
    /\ ObjectStep

\* decode that ignores raw mode.
decode_always_json(line) == deserialize(line)

\* The tweet the loop body works on (lines 150-154).
decode(line) ==
    IF raw_mode THEN [t |-> "str", keys |-> {}, s |-> line]
    ELSE deserialize(line)

\* Bookkeeping of a line taken from self.response.iter_lines().
TakeLine ==
    /\ pc = "read"
    /\ pos < Len(body)
    /\ pos' = pos + 1
    /\ readDisconnected' = (readDisconnected \/ ~connected)

\* iter_lines_consumed with a library that iterates a consumed response as
\* an empty body instead of raising.
iter_lines_consumed_empty ==
    /\ pc = "top"
    /\ connected
    /\ response.consumed
    /\ pc' = "read"
    /\ UNCHANGED <<objVars, gen, result, envVars, callVars, connVars,
                   delivered>>
    /\ ObjectStep

\* Line 148 reached from the top of `while True` while connected is True: the
\* body of self.response has been read to its end by the previous for loop,
\* and requests refuses to iterate a consumed streamed response (TypeError).
iter_lines_consumed ==
    /\ pc = "top"
    /\ connected
    /\ response.consumed
    /\ GenRaise(iter_except("TypeError"))
    /\ UNCHANGED <<objVars, envVars, callVars, connVars, delivered>>
    /\ ObjectStep

\* read_keepalive that yields the empty line to the caller.
read_keepalive_yields ==
    /\ TakeLine
    /\ body[pos + 1] = EmptyLine
    /\ lineRead' = EmptyLine
    /\ lineIdx' = pos + 1
    /\ delivered' = Append(delivered, pos + 1)
    /\ GenYield(decode(EmptyLine))
    /\ UNCHANGED <<objVars, now, nticks, body, stream, ncalls,
                   connectsInCall, startedConnected, countAtCall, forced,
                   prevForced, sockErrInCall, connVars>>
    /\ ObjectStep

\* Line 149: an empty keep-alive line is skipped.
read_keepalive ==
    /\ TakeLine
    /\ body[pos + 1] = EmptyLine
    /\ UNCHANGED <<objVars, gen, pc, now, nticks, body, stream, result, ncalls,
                   lineRead, lineIdx, connectsInCall, startedConnected,
                   countAtCall, forced, prevForced, sockErrInCall, connVars,
                   delivered>>
    /\ ObjectStep

\* read_invalid without the close() of line 156.
read_invalid_no_close ==
    /\ TakeLine
    /\ body[pos + 1] # EmptyLine
    /\ decode(body[pos + 1]) = ValueError
    /\ lineRead' = body[pos + 1]
    /\ lineIdx' = pos + 1
    /\ forced' = TRUE
    /\ GenRaise(iter_except("ReconnectImmediatelyError"))
    /\ UNCHANGED <<objVars, now, nticks, body, stream, ncalls, connectsInCall,
                   startedConnected, countAtCall, prevForced, sockErrInCall,
                   connVars, delivered>>
    /\ ObjectStep

\* Lines 153-157: the line does not deserialize; close() and raise.
read_invalid ==
    /\ TakeLine
    /\ body[pos + 1] # EmptyLine
    /\ decode(body[pos + 1]) = ValueError
    /\ lineRead' = body[pos + 1]
    /\ lineIdx' = pos + 1
    /\ connected' = FALSE
    /\ forced' = TRUE
    /\ GenRaise(iter_except("ReconnectImmediatelyError"))
    /\ UNCHANGED <<response, starttime, count, rate, rate_ts, rate_cnt,
                   raw_mode, now, nticks, body, stream, ncalls, connectsInCall,
                   startedConnected, countAtCall, prevForced, sockErrInCall,
                   connVars, delivered>>
    /\ ObjectStep

\* Lines 150-162: the line gives a tweet; count it if 'text' is in it and
\* yield it.  The membership test raises TypeError on a non-container.
read_tweet ==
    /\ TakeLine
    /\ body[pos + 1] # EmptyLine
    /\ decode(body[pos + 1]) # ValueError
    /\ lineRead' = body[pos + 1]
    /\ lineIdx' = pos + 1
    /\ LET tweet == decode(body[pos + 1])
           hasText == text_in(tweet)
       IN  IF hasText = "TypeError"
           THEN /\ GenRaise(iter_except("TypeError"))
                /\ UNCHANGED <<count, rate_cnt, delivered, firstCountTime>>
           ELSE /\ count' = IF hasText = "True" THEN count + 1 ELSE count
                /\ rate_cnt' = IF hasText = "True" THEN rate_cnt + 1
                               ELSE rate_cnt
                /\ firstCountTime' = IF hasText = "True" /\ firstCountTime = 0
                                     THEN now ELSE firstCountTime
                /\ delivered' = Append(delivered, pos + 1)
                /\ GenYield(tweet)
    /\ UNCHANGED <<connected, response, starttime, rate, rate_ts, raw_mode,
                   now, nticks, body, stream, ncalls, connectsInCall,
                   startedConnected, countAtCall, forced, prevForced,
                   sockErrInCall, nconnects, connOutcome, connRaised>>
    /\ ObjectStep

\* The for loop (line 148) ends with the body: back to the top of
\* `while True`.
read_eof ==
    /\ pc = "read"
    /\ pos = Len(body)
    /\ stream = "eof"
    /\ response' = [response EXCEPT !.consumed = TRUE]
    /\ pc' = "top"
    /\ UNCHANGED <<connected, starttime, count, rate, rate_ts, rate_cnt,
                   raw_mode, gen, envVars, result, callVars, connVars,
                   delivered>>
    /\ ObjectStep

\* The socket raises while the body is read (lines 165-166).
read_socket_error ==
    /\ pc = "read"
    /\ pos = Len(body)
    /\ stream = "fault"
    /\ sockErrInCall' = TRUE
    /\ GenRaise(iter_except("socket.error"))
    /\ UNCHANGED <<objVars, envVars, ncalls, lineRead, lineIdx,
                   connectsInCall, startedConnected, readDisconnected,
                   countAtCall, forced, prevForced, connVars, delivered>>
    /\ ObjectStep

\* close() that also forgets the rate window.
close_resets_window ==
    /\ pc = "idle"
    /\ connected' = FALSE
    /\ rate_cnt' = 0
    /\ rate_ts' = 0
    /\ UNCHANGED <<response, starttime, count, rate, raw_mode, gen, pc,
                   envVars, result, callVars, connVars, delivered>>
    /\ lastOp' = "close"
    /\ UNCHANGED auxVars

\* close() (lines 173-177), called between next() calls.
close ==
    /\ pc = "idle"
    /\ connected' = FALSE
    /\ UNCHANGED <<response, starttime, count, rate, rate_ts, rate_cnt,
                   raw_mode, gen, pc, envVars, result, callVars, connVars,
                   delivered>>
    /\ lastOp' = "close"
    /\ UNCHANGED auxVars

(* ---- environment ---- *)
\* The server's side of the response body.  What the server sends ahead of
\* the reader is buffered by the transport and cannot be told apart from
\* what it sends later, so an event is added to the stream when the reader
\* has taken everything before it.
server_send(line) ==
    /\ stream = "open"
    /\ pos = Len(body)
    /\ Len(body) < MaxBody
    /\ body' = Append(body, line)
    /\ UNCHANGED <<objVars, gen, pc, now, nticks, pos, stream, result, callVars,
                   connVars, delivered>>
    /\ ObjectStep

server_end ==
    /\ stream = "open"
    /\ pos = Len(body)
    /\ stream' = "eof"
    /\ UNCHANGED <<objVars, gen, pc, now, nticks, body, pos, result, callVars,
                   connVars, delivered>>
    /\ ObjectStep

server_fault ==
    /\ stream = "open"
    /\ pos = Len(body)
    /\ stream' = "fault"
    /\ UNCHANGED <<objVars, gen, pc, now, nticks, body, pos, result, callVars,
                   connVars, delivered>>
    /\ ObjectStep

\* time.time() moves on by d seconds between two steps.  The behaviours of
\* the stream move it past a whole rate period at a time (Next); the rate
\* tracker is also run with steps inside a period (NextRate).
Tick(d) ==
    /\ nticks < MaxTime
    /\ nticks' = nticks + 1
    /\ now' = now + d
    /\ UNCHANGED <<objVars, gen, pc, body, pos, stream, result, callVars,
                   connVars, delivered>>
    /\ ObjectStep

Next ==
    \/ next_resume
    \/ next_finished
    \/ \E status \in Statuses : init_conn_response(status)
    \/ \E exc \in RequestExceptions : init_conn_exception(exc)
    \/ iter_lines_consumed
    \/ read_keepalive
    \/ read_invalid
    \/ read_tweet
    \/ read_eof
    \/ read_socket_error
    \/ close
    \/ \E line \in Lines : server_send(line)
    \/ server_end
    \/ server_fault
    \/ Tick(rate_period + 1)

Spec == Init /\ [][Next]_vars

(* ---- progress of a next() call ---- *)
\* The steps of the generator inside a running next() call: the blocking
\* request of _init_conn returns or raises, and a line, the end of the body
\* or a socket error that has arrived is taken by the for loop.
GenStep ==
    \/ \E status \in Statuses : init_conn_response(status)
    \/ \E exc \in RequestExceptions : init_conn_exception(exc)
    \/ iter_lines_consumed
    \/ read_keepalive
    \/ read_invalid
    \/ read_tweet
    \/ read_eof
    \/ read_socket_error

\* The server sends a non-empty line, the transport faults, or the body ends.
ServerProgress ==
    \/ \E line \in Lines \ {EmptyLine} : server_send(line)
    \/ server_end
    \/ server_fault

\* The behaviours of the stream without the clock, which no step of a
\* next() call waits for.
NextLive ==
    \/ next_resume
    \/ next_finished
    \/ GenStep
    \/ close
    \/ \E line \in Lines : server_send(line)
    \/ server_end
    \/ server_fault

SpecLive ==
    /\ Init
    /\ [][NextLive]_vars
    /\ WF_vars(GenStep)
    /\ SF_vars(ServerProgress)

(* ---- the with-statement ---- *)
\* __enter__ (lines 95-96): `with Stream(...) as stream:` enters the scope
\* with the new object.
enter ==
    /\ scope = "out"
    /\ exitResult = "none"
    /\ pc = "idle"
    /\ ncalls = 0
    /\ scope' = "in"
    /\ lastOp' = "enter"
    /\ UNCHANGED <<objVars, gen, pc, envVars, result, callVars, connVars,
                   delivered, exitResult, filterVars, updateResult>>

\* What the with-statement does with the exception of its body once
\* __exit__ has returned `suppress`.
with_outcome(exc, suppress) ==
    IF ~exc THEN "normal" ELSE IF suppress THEN "suppressed" ELSE "raised"

\* __exit__ without the close() of line 99.
exit_no_close(exc) ==
    /\ scope = "in"
    /\ pc = "idle"
    /\ scope' = "out"
    /\ exitResult' = with_outcome(exc, FALSE)
    /\ lastOp' = "exit"
    /\ UNCHANGED <<objVars, gen, pc, envVars, result, callVars, connVars,
                   delivered, filterVars, updateResult>>

\* __exit__ (lines 98-100) at the end of the with-block, reached normally or
\* by an exception raised in the block (exc): close(), then return False.
exit(exc) ==
    /\ scope = "in"
    /\ pc = "idle"
    /\ scope' = "out"
    /\ connected' = FALSE
    /\ exitResult' = with_outcome(exc, FALSE)
    /\ lastOp' = "exit"
    /\ UNCHANGED <<response, starttime, count, rate, rate_ts, rate_cnt,
                   raw_mode, gen, pc, envVars, result, callVars, connVars,
                   delivered, filterVars, updateResult>>

\* The object used inside a with-block.
InScope ==
    /\ scope = "in"
    /\ Next

NextScope ==
    \/ enter
    \/ InScope
    \/ \E exc \in BOOLEAN : exit(exc)

SpecScope == Init /\ [][NextScope]_vars

(* ---- FilterStream ---- *)
FollowIds == {12, 7}
LocationItems == {"-122.75", "36.8"}
TrackItems == {"foo", "bar"}

\* None, or a list of at most MaxList elements of S.
OptLists(S) ==
    {None} \cup {List(items) : items \in UNION {[1..n -> S] : n \in 0..MaxList}}

\* `if self._follow:` (lines 201-203): None and the empty list are false.
truthy_not_none(l) == ~l.none

truthy(l) == ~l.none /\ Len(l.items) > 0

\* ",".join(items)
RECURSIVE join(_)
join(items) ==
    IF Len(items) = 0 THEN ""
    ELSE IF Len(items) = 1 THEN items[1]
    ELSE join(SubSeq(items, 1, Len(items) - 1)) \o "," \o items[Len(items)]

\* [str(e) for e in self._follow]
str_each(items) == [i \in 1..Len(items) |-> ToString(items[i])]

\* FilterStream._get_post_data (lines 199-204); the dict is kept as its set
\* of <<key, value>> pairs.
get_post_data ==
    /\ pc = "idle"
    /\ postdata' =
         (IF truthy(follow)
          THEN {<<"follow", join(str_each(follow.items))>>} ELSE {})
         \cup (IF truthy(locations)
               THEN {<<"locations", join(locations.items)>>} ELSE {})
         \cup (IF truthy(track)
               THEN {<<"track", join(track.items)>>} ELSE {})
    /\ lastOp' = "get_post_data"
    /\ UNCHANGED <<objVars, gen, pc, envVars, result, callVars, connVars,
                   delivered, scopeVars, follow, locations, track,
                   updateResult>>

\* FilterStream.__init__ (lines 189-197) with its three optional lists.
InitFilter ==
    /\ InitBase
    /\ follow \in OptLists(FollowIds)
    /\ locations \in OptLists(LocationItems)
    /\ track \in OptLists(TrackItems)

NextFilter == get_post_data

SpecFilter == InitFilter /\ [][NextFilter]_vars

(* ---- the rate tracker ---- *)
\* _update_rate() (lines 135-140), called between next() calls.  Line 136
\* subtracts self._rate_ts from time.time(): with _rate_ts still None this
\* raises TypeError before the test of line 137 is reached.
update_rate ==
    /\ pc = "idle"
    /\ lastOp' = "update_rate"
    /\ IF rate_ts = 0
       THEN /\ updateResult' = Raised("TypeError")
            /\ UNCHANGED <<rate, rate_cnt, rate_ts>>
       ELSE LET rate_time == now - rate_ts
            IN  /\ updateResult' = Returned(NoValue)
                /\ IF rate_ts = 0 \/ rate_time > rate_period
                   THEN /\ rate' = <<rate_cnt, rate_time>>
                        /\ rate_cnt' = 0
                        /\ rate_ts' = now
                   ELSE UNCHANGED <<rate, rate_cnt, rate_ts>>
    /\ UNCHANGED <<connected, response, starttime, count, raw_mode, gen, pc,
                   envVars, result, callVars, connVars, delivered, scopeVars,
                   filterVars>>

\* The objects the rate tracker is run on: a new object, or an object that
\* has just connected and returned a number of counted tweets.
InitRate ==
    /\ raw_mode \in BOOLEAN
    /\ now \in 1..(MaxTime + 1)
    /\ \E counted \in 0..MaxCalls, fresh \in BOOLEAN :
         /\ fresh => counted = 0
         /\ connected = ~fresh
         /\ response = IF fresh THEN NoResponse
                       ELSE [status |-> 200, consumed |-> FALSE]
         /\ starttime = IF fresh THEN 0 ELSE now
         /\ rate_ts = IF fresh THEN 0 ELSE now
         /\ stream = IF fresh THEN "none" ELSE "open"
         /\ gen = IF fresh THEN "created" ELSE "suspended"
         /\ nconnects = IF fresh THEN 0 ELSE 1
         /\ connOutcome = IF fresh THEN "none" ELSE "200"
         /\ count = counted
         /\ rate_cnt = counted
         /\ firstCountTime = IF counted > 0 THEN now ELSE 0
    /\ rate = ZeroRate
    /\ pc = "idle"
    /\ body = <<>>
    /\ pos = 0
    /\ result = NoResult
    /\ ncalls = 0
    /\ lineRead = NoLine
    /\ lineIdx = 0
    /\ connectsInCall = 0
    /\ startedConnected = FALSE
    /\ readDisconnected = FALSE
    /\ countAtCall = 0
    /\ forced = FALSE
    /\ prevForced = FALSE
    /\ connRaised = "none"
    /\ sockErrInCall = FALSE
    /\ delivered = <<>>
    /\ nticks = 0
    /\ lastOp = "none"
    /\ scope = "out"
    /\ exitResult = "none"
    /\ follow = None
    /\ locations = None
    /\ track = None
    /\ postdata = {}
    /\ updateResult = NoResult

NextRate ==
    \/ update_rate
    \/ \E d \in TickSteps : Tick(d)

SpecRate == InitRate /\ [][NextRate]_vars

(* ---- properties ---- *)
IsJsonObject(line) == line # NoLine /\ deserialize(line).t = "dict"
HasTextKey(line) == IsJsonObject(line) /\ "text" \in deserialize(line).keys
CallDone == pc = "idle" /\ ncalls > 0

\* C1: in non-raw mode the next() call that reads a malformed non-empty line
\* fails with ReconnectImmediatelyError and leaves connected false.
C1_MalformedLineRaisesAndDisconnects ==
    (CallDone /\ ~raw_mode /\ lineRead # NoLine
        /\ deserialize(lineRead) = ValueError)
    => (result = Raised("ReconnectImmediatelyError") /\ ~connected)

C1_Witness ==
    /\ CallDone /\ ~raw_mode /\ lineRead = BadLine /\ startedConnected
    /\ result = Raised("ReconnectImmediatelyError") /\ ~connected

\* C2: the next() call that follows a call failed by a malformed line (the
\* fault that sets connected back to false) calls _init_conn again.
C2_NextCallReconnects ==
    (CallDone /\ prevForced) => connectsInCall >= 1

\* C3: every exception a next() call propagates is one of the four kinds of
\* the taxonomy.
C3_OnlyTaxonomyErrorsPropagate ==
    result.kind = "raise" => result.err \in Taxonomy

\* C4: a request-level failure of requests.post (a network error or an HTTP
\* error) makes _init_conn fail with ReconnectExponentiallyError, leaves
\* connected false, and no other kind reaches the caller of next().
C4_RequestFailureIsExponential ==
    connOutcome \in {"HTTPError", "ConnectionError"}
    => /\ connRaised = "ReconnectExponentiallyError"
       /\ ~connected
       /\ (pc = "idle" /\ connectsInCall > 0
             => result = Raised("ReconnectExponentiallyError"))

\* C5: a next() call during which the socket raises fails with
\* ReconnectImmediatelyError and leaves connected false.
C5_SocketErrorRaisesAndDisconnects ==
    (CallDone /\ sockErrInCall)
    => (result = Raised("ReconnectImmediatelyError") /\ ~connected)

\* C6: a 401 response makes _init_conn fail with AuthenticationError and
\* connected is false after it.
C6_Status401IsAuthenticationError ==
    connOutcome = "401"
    => (connRaised = "AuthenticationError" /\ ~connected)

C6_Witness ==
    /\ connOutcome = "401" /\ CallDone /\ connectsInCall = 1
    /\ result = Raised("AuthenticationError")

\* C7: a 404 response makes _init_conn fail with ReconnectExponentiallyError
\* and connected is false after it.
C7_Status404IsExponential ==
    connOutcome = "404"
    => (connRaised = "ReconnectExponentiallyError" /\ ~connected)

C7_Witness ==
    /\ connOutcome = "404" /\ CallDone /\ connectsInCall = 1
    /\ result = Raised("ReconnectExponentiallyError")

\* C8: a next() call that starts with connected false calls _init_conn before
\* it reads a line, and returns no record without having connected.
C8_DisconnectedCallConnectsFirst ==
    (CallDone /\ ~startedConnected)
    => /\ ~readDisconnected
       /\ (result.kind = "return" => connectsInCall >= 1)

\* C9: in non-raw mode the next() call that reads a valid JSON object with
\* the 'text' key returns the decoded object and raises count by exactly 1.
C9_TextTweetReturnedAndCounted ==
    (CallDone /\ ~raw_mode /\ HasTextKey(lineRead))
    => /\ result.kind = "return"
       /\ result.value.t = "dict"
       /\ "text" \in result.value.keys
       /\ result.value = deserialize(lineRead)
       /\ count = countAtCall + 1

C9_Witness ==
    /\ CallDone /\ ~raw_mode /\ lineRead = TextTweet
    /\ result.kind = "return" /\ countAtCall = 1 /\ count = 2

C11_RateRecomputedByNext ==
    [][(pc = "read" /\ pc' = "idle" /\ result'.kind = "return"
          /\ count' > count /\ firstCountTime # 0
          /\ now - firstCountTime > rate_period)
       => rate' # ZeroRate]_vars

\* C12: an _update_rate() call made with no window start recorded, or more
\* than rate_period seconds after the window start, sets rate to
\* window_count / elapsed_seconds, window_count to 0 and the window start to
\* now; a call made at most rate_period seconds after the window start leaves
\* the three unchanged.
C12_RateRefreshRule ==
    [][lastOp' = "update_rate"
       => IF rate_ts = 0 \/ now - rate_ts > rate_period
          THEN /\ updateResult'.kind = "return"
               /\ rate_cnt' = 0
               /\ rate_ts' = now
               /\ (rate_ts # 0 => rate' = <<rate_cnt, now - rate_ts>>)
          ELSE UNCHANGED <<rate, rate_cnt, rate_ts>>]_vars

\* The model issues no more than MaxConnects requests: a call that needs one
\* more waits at _init_conn.
ConnectCapped == pc = "top" /\ ~connected /\ nconnects >= MaxConnects

\* C13: every next() call completes (returns or raises) when the server goes
\* on to send a non-empty line, to fault or to end the body; it does not
\* loop forever after the end of the body.
C13_CallCompletes ==
    (pc # "idle") ~> (pc = "idle" \/ ConnectCapped)

C13_Witness ==
    /\ CallDone /\ response.consumed /\ stream = "eof"
    /\ result = Raised("TypeError")

\* C14: after the with-block is left, normally or by an exception and in any
\* connection state, connected is false and an exception of the block has
\* not been suppressed.
C14_ExitClosesAndPropagates ==
    lastOp = "exit"
    => /\ ~connected
       /\ scope = "out"
       /\ exitResult \in {"normal", "raised"}

C14_Witness ==
    /\ lastOp = "exit" /\ exitResult = "raised" /\ ~connected
    /\ gen = "suspended" /\ result.kind = "return" /\ nconnects = 1

\* The comma-joined string of a list of strings, first element first.
RECURSIVE CommaJoined(_)
CommaJoined(items) ==
    IF Len(items) = 0 THEN ""
    ELSE IF Len(items) = 1 THEN Head(items)
    ELSE Head(items) \o "," \o CommaJoined(Tail(items))

NonEmptyList(l) == l # None /\ l.items # <<>>
PayloadKeys == {kv[1] : kv \in postdata}
PayloadValue(key) == CHOOSE v \in {kv[2] : kv \in postdata} : <<key, v>> \in postdata

\* C15: the payload has the key 'follow', 'locations' or 'track' exactly when
\* that list is non-empty, each with the comma-joined string of the list's
\* elements in order; track=['foo','bar'], follow=[], locations=None gives
\* exactly {'track': 'foo,bar'}.
C15_FilterPayload ==
    lastOp = "get_post_data"
    => /\ Cardinality(postdata) = Cardinality(PayloadKeys)
       /\ PayloadKeys \subseteq {"follow", "locations", "track"}
       /\ ("follow" \in PayloadKeys) <=> NonEmptyList(follow)
       /\ ("locations" \in PayloadKeys) <=> NonEmptyList(locations)
       /\ ("track" \in PayloadKeys) <=> NonEmptyList(track)
       /\ NonEmptyList(follow) =>
            PayloadValue("follow") =
              CommaJoined([i \in 1..Len(follow.items) |->
                             IF follow.items[i] = 12 THEN "12" ELSE "7"])
       /\ NonEmptyList(locations) =>
            PayloadValue("locations") = CommaJoined(locations.items)
       /\ NonEmptyList(track) =>
            PayloadValue("track") = CommaJoined(track.items)
       /\ (track = List(<<"foo", "bar">>) /\ follow = List(<<>>)
             /\ locations = None)
          => postdata = {<<"track", "foo,bar">>}

C15_Witness ==
    /\ lastOp = "get_post_data"
    /\ track = List(<<"foo", "bar">>) /\ follow = List(<<>>)
    /\ locations = None
    /\ postdata = {<<"track", "foo,bar">>}

\* C16: close() leaves connected false and changes no other field of the
\* object (count, starttime, rate, the rate window, the response, the
\* generator); a second close() changes nothing at all.
C16_CloseOnlyDisconnects ==
    [][lastOp' = "close"
       => /\ connected' = FALSE
          /\ UNCHANGED <<response, starttime, count, rate, rate_ts, rate_cnt,
                         raw_mode, gen, pc, result>>
          /\ (lastOp = "close" => UNCHANGED vars)]_vars

C16_Witness ==
    /\ lastOp = "close" /\ ~connected
    /\ gen = "suspended" /\ stream = "open"
    /\ count = 1 /\ rate_cnt = 1 /\ starttime # 0 /\ rate_ts # 0

FatalErrors == {"AuthenticationError", "ReconnectExponentiallyError"}
FatalPropagated == pc = "idle" /\ connRaised \in FatalErrors

\* C17: once AuthenticationError, or ReconnectExponentiallyError from the
\* connect, has left next(), no later step of the object connects again or
\* returns a record.
C17_FatalEndsIteration ==
    [][FatalPropagated
       => /\ nconnects' = nconnects
          /\ result'.kind # "return"
          /\ gen' = "finished"
          /\ FatalPropagated']_vars

C17_Witness ==
    /\ connRaised = "AuthenticationError" /\ gen = "finished"
    /\ result = Raised("StopIteration") /\ ncalls >= 2 /\ nconnects = 1

\* Positions of the non-empty lines among the first n lines of the body.
NonEmptyPositions(n) ==
    SelectSeq([i \in 1..n |-> i], LAMBDA i : body[i] # EmptyLine)

IsPrefix(s, t) == Len(s) <= Len(t) /\ SubSeq(t, 1, Len(s)) = s

\* C18: within one connection the lines returned so far are the non-empty
\* lines read so far, in body order and once each; the record a call returns
\* is the line the reader stands on; a call that has not returned has not
\* changed count, so a keep-alive line changes no count.
C18_RecordsAreNonEmptyLinesInOrder ==
    /\ IsPrefix(delivered, NonEmptyPositions(pos))
    /\ gen # "finished" => delivered = NonEmptyPositions(pos)
    /\ (CallDone /\ result.kind = "return")
       => /\ delivered # <<>>
          /\ delivered[Len(delivered)] = pos
          /\ lineIdx = pos
          /\ lineRead = body[pos]
          /\ lineRead # EmptyLine
          /\ result.value = (IF raw_mode
                             THEN [t |-> "str", keys |-> {}, s |-> body[pos]]
                             ELSE deserialize(body[pos]))
    /\ pc # "idle" => count = countAtCall

C18_Witness ==
    /\ CallDone /\ result.kind = "return"
    /\ Len(body) = 3 /\ body[1] # EmptyLine /\ body[2] = EmptyLine
    /\ delivered = <<1, 3>> /\ count = 2 /\ ncalls = 2

\* C19: starttime stays unset until a connect succeeds, that connect sets it
\* to the time of the connect, and no later step changes it.
C19_StarttimeSetOnce ==
    [][/\ starttime # 0 => starttime' = starttime
       /\ starttime = 0
          => /\ (starttime' # 0) <=> (~connected /\ connected')
             /\ starttime' \in {0, now}]_vars

C19_Witness ==
    /\ nconnects = 2 /\ connected /\ connOutcome = "200"
    /\ starttime # 0 /\ starttime < now

\* C20: in raw mode a non-empty line read by next() is returned as the same
\* string; no call closes the connection for invalid data, fails with
\* ReconnectImmediatelyError without a socket error, or leaves a connected
\* stream disconnected while it reads.
C20_RawModeReturnsLine ==
    raw_mode
    => /\ ~forced
       /\ lineRead # NoLine
          => result = Returned([t |-> "str", keys |-> {}, s |-> lineRead])
       /\ result.err = "ReconnectImmediatelyError" => sockErrInCall
       /\ (pc = "read" /\ startedConnected) => connected

C20_Witness ==
    /\ raw_mode /\ lineRead = BadLine /\ connected /\ gen = "suspended"
    /\ result = Returned([t |-> "str", keys |-> {}, s |-> BadLine])

====
